---- MODULE Spec2Model ----
(***************************************************************************)
(* Model of scraper.py: the loop of main over the input sites, the        *)
(* per-site crawler scan_site and the pure helpers it calls.               *)
(*                                                                         *)
(* A URL is the record of the components urlparse splits it into; its      *)
(* string form is  scheme "://" netloc, then "/" seg for every path        *)
(* segment, then `slashes` trailing "/" characters, then "#" fragment.     *)
(* A page (html) is a sequence of text nodes and a sequence of anchors.    *)
(***************************************************************************)
EXTENDS Integers, Sequences, FiniteSets, TLC

VARIABLES url, max_pages, queue, seen, certifications,
          remote_environment_mentions, pages_scanned, pages_with_hits,
          current, html, pc, result, fetch_log, skipped, appended,
          delay, input, urls, site, results, report, mpc, static, served,
          fn_args, fn_value,
          search_engine, queries, results_per_query, all_urls, query_index,
          dpc, discovered_urls, page_index, start, requested, per_query

\* the arguments and the value of a function applied on its own
fnVars == <<fn_args, fn_value>>

\* the state of discovery.py: discover_bpo_websites and the scrape of one query
discoveryVars == <<search_engine, queries, results_per_query, all_urls,
                   query_index, dpc, discovered_urls, page_index, start,
                   requested, per_query>>

\* the state outside main and scan_site
otherVars == <<fnVars, discoveryVars>>

\* the state of scraper.py: main, scan_site and the sites they fetch
scraperVars == <<url, max_pages, queue, seen, certifications,
                 remote_environment_mentions, pages_scanned, pages_with_hits,
                 current, html, pc, result, fetch_log, skipped, appended,
                 delay, input, urls, site, results, report, mpc, static,
                 served>>

vars == <<scraperVars, otherVars>>

\* the arguments, the input and the loop state of main
mainVars == <<url, max_pages, delay, input, urls, site, results, report, mpc,
              static, otherVars>>

(***************************************************************************)
(* Bounds of the model.                                                    *)
(***************************************************************************)
MaxPagesBound == 3

(***************************************************************************)
(* Strings.  str.lower() and the substring test `keyword in s` are given   *)
(* by their values on the strings the model uses.                          *)
(***************************************************************************)
Lower(s) ==
    CASE s = "ACME.com" -> "acme.com"
      [] s = "WWW.Acme.com" -> "www.acme.com"
      [] s = "DuckDuckGo" -> "duckduckgo"
      [] s = "Security" -> "security"
      [] s = "SOC" -> "soc"
      [] s = "HIPAA" -> "hipaa"
      [] s = "Citrix" -> "citrix"
      [] s = "VDI" -> "vdi"
      [] s = "Remote" -> "remote"
      [] s = "Desktop" -> "desktop"
      [] s = "Azure" -> "azure"
      [] s = "Virtual" -> "virtual"
      [] OTHER -> s

LINK_KEYWORDS == {"security", "compliance", "certification", "certifications",
                  "privacy", "trust", "governance"}

\* the keywords that occur as a substring of s
KeywordsIn(s) ==
    CASE s = "security" -> {"security"}
      [] s = "security@acme.com" -> {"security"}
      [] s = "trust" -> {"trust"}
      [] s = "privacy" -> {"privacy"}
      [] s = "certifications" -> {"certification", "certifications"}
      [] OTHER -> {}

(***************************************************************************)
(* URLs.                                                                   *)
(***************************************************************************)
Url(s, n, p, sl, f) ==
    [scheme |-> s, netloc |-> n, path |-> p, slashes |-> sl, fragment |-> f]

\* is_same_domain
IsSameDomain(base, target) == Lower(base.netloc) = Lower(target.netloc)

NormalizeUrl_KeepSlashes(u) == [u EXCEPT !.fragment = ""]

\* normalize_url: drop the fragment, then rstrip("/") unless that leaves ""
NormalizeUrl(u) ==
    LET normalized == [u EXCEPT !.fragment = ""]
        stripped == [normalized EXCEPT !.slashes = 0]
        strippedEmpty == /\ normalized.scheme = ""
                         /\ normalized.netloc = ""
                         /\ normalized.path = <<>>
    IN IF strippedEmpty THEN normalized ELSE stripped

(***************************************************************************)
(* Anchors.  `kind` tells the form of the href attribute:                  *)
(*   "abs"    scheme://netloc/path#fragment                                *)
(*   "root"   /path#fragment                                               *)
(*   "rel"    path#fragment   (no leading slash)                           *)
(*   "frag"   #fragment                                                    *)
(*   "mailto" mailto:path     "tel"  tel:path                              *)
(*   "nohref" the anchor has no href attribute                             *)
(***************************************************************************)
Anchor(k, s, n, p, sl, f, t) ==
    [kind |-> k, scheme |-> s, netloc |-> n, path |-> p, slashes |-> sl,
     fragment |-> f, text |-> t]

Front(s) == SubSeq(s, 1, Len(s) - 1)

\* urljoin(base_url, href); the crawler only passes normalized bases
UrlJoin(base, a) ==
    CASE a.kind = "abs" -> Url(a.scheme, a.netloc, a.path, a.slashes, a.fragment)
      [] a.kind = "root" -> Url(base.scheme, base.netloc, a.path, a.slashes, a.fragment)
      [] a.kind = "rel" ->
            Url(base.scheme, base.netloc,
                (IF base.slashes > 0 \/ base.path = <<>>
                    THEN base.path ELSE Front(base.path)) \o a.path,
                a.slashes, a.fragment)
      [] a.kind = "frag" -> [base EXCEPT !.fragment = a.fragment]
      [] OTHER -> Url(a.kind, "", a.path, 0, "")

\* urlsplit: '[' in netloc without ']' (or the reverse)
BracketsUnmatched(n) ==
    CASE n = "[security" -> TRUE
      [] OTHER -> FALSE

\* urljoin(base_url, href) raises ValueError("Invalid IPv6 URL")
UrlJoinRaises(a) == a.kind = "abs" /\ BracketsUnmatched(a.netloc)

\* the pieces of the href string that can hold a keyword
HrefParts(a) ==
    {a.netloc, a.fragment} \cup {a.path[i] : i \in 1..Len(a.path)}

\* any(keyword in href.lower() for keyword in LINK_KEYWORDS)
HasLinkKeyword(a) ==
    \E keyword \in LINK_KEYWORDS :
        \E part \in HrefParts(a) : keyword \in KeywordsIn(Lower(part))

AcceptsAnchor_AnyDomain(base_url, a) ==
    /\ a.kind # "nohref"
    /\ a.kind \notin {"mailto", "tel"}
    /\ HasLinkKeyword(a)

AcceptsAnchor_AnyHref(base_url, a) ==
    /\ a.kind # "nohref"
    /\ a.kind \notin {"mailto", "tel"}
    /\ IsSameDomain(base_url, UrlJoin(base_url, a))

\* the test of one anchor in the loop of find_internal_links
AcceptsAnchor(base_url, a) ==
    /\ a.kind # "nohref"
    /\ a.kind \notin {"mailto", "tel"}
    /\ IsSameDomain(base_url, UrlJoin(base_url, a))
    /\ HasLinkKeyword(a)

RECURSIVE CollectLinks(_, _)
CollectLinks(base_url, anchors) ==
    IF anchors = <<>> THEN <<>>
    ELSE LET a == Head(anchors)
             rest == CollectLinks(base_url, Tail(anchors))
         IN IF AcceptsAnchor(base_url, a)
               THEN <<NormalizeUrl(UrlJoin(base_url, a))>> \o rest
               ELSE rest

RECURSIVE DictFromKeys_KeepLast(_)
DictFromKeys_KeepLast(links) ==
    IF links = <<>> THEN <<>>
    ELSE LET rest == DictFromKeys_KeepLast(Tail(links))
         IN IF \E i \in 1..Len(rest) : rest[i] = Head(links)
               THEN rest ELSE <<Head(links)>> \o rest

\* list(dict.fromkeys(links)): keep the first occurrence of every element
RECURSIVE DictFromKeys(_)
DictFromKeys(links) ==
    IF links = <<>> THEN <<>>
    ELSE LET front == DictFromKeys(Front(links))
             last == links[Len(links)]
         IN IF \E i \in 1..Len(front) : front[i] = last
               THEN front ELSE Append(front, last)

\* find_internal_links
FindInternalLinks(base_url, anchors) ==
    DictFromKeys(CollectLinks(base_url, anchors))

\* find_internal_links raises: the loop reaches an anchor on which urljoin
\* raises (anchors without href and mailto:/tel: hrefs are passed over)
FindInternalLinksRaises(base_url, anchors) ==
    \E i \in 1..Len(anchors) :
        /\ anchors[i].kind \notin {"nohref", "mailto", "tel"}
        /\ UrlJoinRaises(anchors[i])

(***************************************************************************)
(* Text extraction and pattern matching.  A text is a sequence of words    *)
(* (the blank-separated pieces of the extracted string).                   *)
(***************************************************************************)
RECURSIVE ExtractText(_)
ExtractText(body) ==
    IF body = <<>> THEN <<>>
    ELSE IF Head(body).tag \in {"script", "style", "noscript"}
            THEN ExtractText(Tail(body))
            ELSE Head(body).words \o ExtractText(Tail(body))

\* \bW\b, IGNORECASE
HasWord(text, w) == \E i \in 1..Len(text) : Lower(text[i]) = w

\* \bA\s*B\b, IGNORECASE: the two parts in one word or in adjacent words
HasPair(text, a, b, ab) ==
    \/ HasWord(text, ab)
    \/ \E i \in 1..(Len(text) - 1) :
          Lower(text[i]) = a /\ Lower(text[i + 1]) = b

\* A\s+B without word boundaries, IGNORECASE (on the model's words)
HasAdjacent(text, a, b) ==
    \E i \in 1..(Len(text) - 1) :
        Lower(text[i]) = a /\ Lower(text[i + 1]) = b

CertificationLabels ==
    {"ISO 27001", "SOC 1", "SOC 2", "SOC 3", "PCI DSS", "HIPAA", "HITRUST", "GDPR"}

\* CERTIFICATION_PATTERNS[label].search(text)
CERTIFICATION_PATTERNS(label, text) ==
    CASE label = "ISO 27001" -> HasPair(text, "iso", "27001", "iso27001")
      [] label = "SOC 1" -> HasPair(text, "soc", "1", "soc1")
      [] label = "SOC 2" -> HasPair(text, "soc", "2", "soc2")
      [] label = "SOC 3" -> HasPair(text, "soc", "3", "soc3")
      [] label = "PCI DSS" -> HasPair(text, "pci", "dss", "pcidss")
      [] label = "HIPAA" -> HasWord(text, "hipaa")
      [] label = "HITRUST" -> HasWord(text, "hitrust")
      [] label = "GDPR" -> HasWord(text, "gdpr")

RemoteEnvLabels ==
    {"VDI", "Remote Desktop", "Citrix", "VMware Horizon", "Azure Virtual Desktop"}

\* REMOTE_ENV_PATTERNS[label].search(text)
REMOTE_ENV_PATTERNS(label, text) ==
    CASE label = "VDI" -> HasWord(text, "vdi") \/ HasAdjacent(text, "virtual", "desktop")
      [] label = "Remote Desktop" -> HasAdjacent(text, "remote", "desktop")
      [] label = "Citrix" -> HasWord(text, "citrix")
      [] label = "VMware Horizon" -> HasAdjacent(text, "vmware", "horizon")
      [] label = "Azure Virtual Desktop" ->
            \/ HasWord(text, "avd")
            \/ \E i \in 1..(Len(text) - 2) :
                  /\ Lower(text[i]) = "azure"
                  /\ Lower(text[i + 1]) = "virtual"
                  /\ Lower(text[i + 2]) = "desktop"

MatchCertifications_Break(text) ==
    LET matches == {label \in CertificationLabels : CERTIFICATION_PATTERNS(label, text)}
    IN IF matches = {} THEN {} ELSE {CHOOSE label \in matches : TRUE}

\* match_certifications
MatchCertifications(text) ==
    {label \in CertificationLabels : CERTIFICATION_PATTERNS(label, text)}

\* match_remote_environment_mentions
MatchRemoteEnvironmentMentions(text) ==
    {label \in RemoteEnvLabels : REMOTE_ENV_PATTERNS(label, text)}

(***************************************************************************)
(* The inputs of the model: seed URLs, anchors, page bodies.               *)
(***************************************************************************)
Seeds ==
    { Url("https", "acme.com", <<>>, 1, ""),              \* https://acme.com/
      Url("https", "ACME.com", <<"security">>, 0, "top"), \* https://ACME.com/security#top
      Url("", "", <<>>, 1, "") }                          \* /

Node(t, w) == [tag |-> t, words |-> w]

Page(b, a) == [body |-> b, anchors |-> a]

\* hrefs
Security == Anchor("root", "", "", <<"security">>, 0, "", "Security")      \* /security
TrustTop == Anchor("root", "", "", <<"trust">>, 1, "top", "Trust")         \* /trust/#top
Trust == Anchor("root", "", "", <<"trust">>, 0, "", "Trust")               \* /trust
UpperHost == Anchor("abs", "https", "ACME.com", <<"security">>, 0, "", "x")
OtherHost == Anchor("abs", "https", "other.com", <<"security">>, 0, "", "Security")
About == Anchor("root", "", "", <<"about">>, 0, "", "Security")            \* /about
MailTo == Anchor("mailto", "", "", <<"security@acme.com">>, 0, "", "x")
Privacy == Anchor("frag", "", "", <<>>, 0, "privacy", "x")                 \* #privacy
Sibling == Anchor("rel", "", "", <<"Security">>, 2, "", "x")               \* Security//
NoHref == Anchor("nohref", "", "", <<"security">>, 0, "", "Security")
Bracket == Anchor("abs", "http", "[security", <<>>, 0, "", "x")            \* http://[security

\* the pages a fetch can return
Pages ==
    { Page(<<>>, <<>>),
      Page(<<Node("p", <<"SOC", "2">>), Node("p", <<"HIPAA">>)>>,
           <<Security, TrustTop>>),
      Page(<<Node("script", <<"HIPAA">>), Node("p", <<"Citrix">>)>>,
           <<Trust, OtherHost, TrustTop>>),
      Page(<<Node("p", <<"HIPAA">>), Node("p", <<"VDI">>)>>,
           <<UpperHost, About, NoHref>>),
      Page(<<Node("p", <<"soc">>), Node("p", <<"3">>)>>, <<Sibling, Security>>),
      Page(<<Node("style", <<"SOC", "2">>)>>, <<MailTo, Privacy, Trust>>),
      Page(<<Node("p", <<"Citrix">>)>>, <<Security, Bracket>>) }

(***************************************************************************)
(* The input file of main: a readable flag and the lines of the file.      *)
(***************************************************************************)
Line(k, u) == [kind |-> k, url |-> u]

NoUrl == Url("", "", <<>>, 0, "")

AcmeRoot == Url("https", "acme.com", <<>>, 1, "")
UpperDeep == Url("https", "ACME.com", <<"security">>, 0, "top")
Schemeless == Url("", "", <<>>, 1, "")

InputFile(r, l) == [readable |-> r, lines |-> l]

Inputs ==
    { InputFile(FALSE, <<>>),
      InputFile(TRUE, <<>>),
      InputFile(TRUE, <<Line("comment", NoUrl), Line("url", AcmeRoot),
                        Line("blank", NoUrl), Line("url", UpperDeep)>>),
      InputFile(TRUE, <<Line("url", AcmeRoot), Line("url", AcmeRoot)>>),
      InputFile(TRUE, <<Line("url", Schemeless), Line("url", AcmeRoot)>>) }

\* input files that list one site twice, read while the sites do not change
StaticInputs ==
    { InputFile(TRUE, <<Line("url", AcmeRoot), Line("url", AcmeRoot)>>),
      InputFile(TRUE, <<Line("url", UpperDeep), Line("url", UpperDeep)>>) }

\* read_urls: the stripped lines that are neither blank nor comments
RECURSIVE ReadUrlsLines(_)
ReadUrlsLines(lines) ==
    IF lines = <<>> THEN <<>>
    ELSE IF Head(lines).kind = "url"
            THEN <<Head(lines).url>> \o ReadUrlsLines(Tail(lines))
            ELSE ReadUrlsLines(Tail(lines))

(***************************************************************************)
(* write_results: one row per result, the label sets sorted and joined,    *)
(* "None" for an empty set.                                                *)
(***************************************************************************)
SortedCertificationLabels ==
    <<"GDPR", "HIPAA", "HITRUST", "ISO 27001", "PCI DSS", "SOC 1", "SOC 2", "SOC 3">>

SortedRemoteEnvLabels ==
    <<"Azure Virtual Desktop", "Citrix", "Remote Desktop", "VDI", "VMware Horizon">>

\* ", ".join(sorted(labels)) or "None"
JoinSorted(labels, order) ==
    IF labels = {} THEN <<"None">>
    ELSE SelectSeq(order, LAMBDA label : label \in labels)

Row(r) ==
    [url |-> r.url,
     certifications |-> JoinSorted(r.certifications, SortedCertificationLabels),
     remote_environment_mentions |->
        JoinSorted(r.remote_environment_mentions, SortedRemoteEnvLabels),
     pages_scanned |-> r.pages_scanned,
     pages_with_hits |-> r.pages_with_hits]

Rows(rs) == [i \in 1..Len(rs) |-> Row(rs[i])]

(***************************************************************************)
(* main and scan_site.  One action of scan_site is one pass of its while   *)
(* loop.  pc is the position in scan_site ("idle" outside it), mpc the     *)
(* position in main.                                                       *)
(***************************************************************************)
InitWith(inputs, statics) ==
    /\ input \in inputs
    /\ static \in statics
    /\ max_pages \in 0..MaxPagesBound
    /\ delay \in {0, 1}
    /\ mpc = "read"
    /\ urls = <<>>
    /\ site = 0
    /\ results = <<>>
    /\ report = <<>>
    /\ served = {}
    /\ url = NoUrl
    /\ queue = <<>>
    /\ seen = {}
    /\ certifications = {}
    /\ remote_environment_mentions = {}
    /\ pages_scanned = 0
    /\ pages_with_hits = 0
    /\ current = <<>>
    /\ html = <<>>
    /\ pc = "idle"
    /\ result = <<>>
    /\ fetch_log = <<>>
    /\ skipped = <<>>
    /\ appended = <<>>

\* no function is applied on its own
FnIdle ==
    /\ fn_args = <<>>
    /\ fn_value = <<>>

\* discover_bpo_websites is not called
DiscoveryIdle ==
    /\ search_engine = "google"
    /\ queries = <<>>
    /\ results_per_query = 0
    /\ all_urls = {}
    /\ query_index = 0
    /\ dpc = "idle"
    /\ discovered_urls = {}
    /\ page_index = 0
    /\ start = 0
    /\ requested = <<>>
    /\ per_query = <<>>

OthersIdle == FnIdle /\ DiscoveryIdle

\* the sites change between two fetches, or they are static
Init ==
    /\ OthersIdle
    /\ \/ InitWith(Inputs, {FALSE})
       \/ InitWith(StaticInputs, {TRUE})

\* the locals of scan_site do not outlive the call
LocalsGone ==
    /\ queue' = <<>>
    /\ seen' = {}
    /\ certifications' = {}
    /\ remote_environment_mentions' = {}
    /\ pages_scanned' = 0
    /\ pages_with_hits' = 0
    /\ current' = <<>>
    /\ html' = <<>>
    /\ result' = <<>>
    /\ fetch_log' = <<>>
    /\ skipped' = <<>>
    /\ appended' = <<>>

\* urls = read_urls(args.input)
ReadUrls ==
    /\ mpc = "read"
    /\ input.readable
    /\ urls' = ReadUrlsLines(input.lines)
    /\ mpc' = "scan"
    /\ UNCHANGED <<url, max_pages, delay, input, site, results, report, static, otherVars,
                   served, queue, seen, certifications,
                   remote_environment_mentions, pages_scanned, pages_with_hits,
                   current, html, pc, result, fetch_log, skipped, appended>>

ReadUrlsFail_Swallow ==
    /\ mpc = "read"
    /\ ~input.readable
    /\ urls' = <<>>
    /\ mpc' = "scan"
    /\ UNCHANGED <<url, max_pages, delay, input, site, results, report, static, otherVars,
                   served, queue, seen, certifications,
                   remote_environment_mentions, pages_scanned, pages_with_hits,
                   current, html, pc, result, fetch_log, skipped, appended>>

\* open() raises in read_urls: main does not catch it
ReadUrlsFail ==
    /\ mpc = "read"
    /\ ~input.readable
    /\ mpc' = "fatal"
    /\ UNCHANGED <<url, max_pages, delay, input, urls, site, results, report,
                   static, otherVars, served, queue, seen, certifications,
                   remote_environment_mentions, pages_scanned, pages_with_hits,
                   current, html, pc, result, fetch_log, skipped, appended>>

InitialSeen_Shared(done_urls) ==
    {NormalizeUrl(done_urls[i]) : i \in 1..Len(done_urls)}

\* the visited set a crawl starts with
InitialSeen(done_urls) == {}

InitialCount_Carry(done_results) ==
    IF done_results = <<>> THEN 0
    ELSE done_results[Len(done_results)].pages_scanned

\* the counter value a crawl starts with
InitialCount(done_results) == 0

\* for i, url in enumerate(urls, 1): entry of scan_site(url, ...)
\* an entry of the log of the URLs put into the queue: the URL and the number
\* of links followed from the seed to the page that held it
Discovery(u, d) == [url |-> u, depth |-> d]

\* the depth of the page on which a fetched URL was first found
DepthOf(u, log) ==
    log[CHOOSE i \in 1..Len(log) :
            /\ log[i].url = u
            /\ \A j \in 1..(i - 1) : log[j].url # u].depth

Extend_Front(q, links) == links \o q

\* for link in ...: queue.append(link)
Extend(q, links) == q \o links

StartScan ==
    /\ mpc = "scan"
    /\ pc = "idle"
    /\ site < Len(urls)
    /\ site' = site + 1
    /\ url' = urls[site + 1]
    /\ queue' = <<NormalizeUrl(urls[site + 1])>>
    /\ appended' = <<Discovery(NormalizeUrl(urls[site + 1]), 0)>>
    /\ seen' = InitialSeen(SubSeq(urls, 1, site))
    /\ certifications' = {}
    /\ remote_environment_mentions' = {}
    /\ pages_scanned' = InitialCount(results)
    /\ pages_with_hits' = 0
    /\ pc' = "loop"
    /\ UNCHANGED <<max_pages, delay, input, urls, results, report, mpc, static, otherVars,
                   served, current, html, result, fetch_log, skipped>>

LoopGuard_OffByOne(q, scanned, limit) == q # <<>> /\ scanned <= limit

\* while queue and pages_scanned < max_pages
LoopGuard(q, scanned, limit) == q # <<>> /\ scanned < limit

AlreadySeen_Never(u, visited) == FALSE

\* if current in seen
AlreadySeen(u, visited) == u \in visited

CountHit_Labels(hits, page_matches) == hits + Cardinality(page_matches)

\* if page_matches: pages_with_hits += 1
CountHit(hits, page_matches) ==
    IF page_matches # {} THEN hits + 1 ELSE hits

UpdateLabels_Overwrite(labels, matches) ==
    IF matches # {} THEN matches ELSE labels

UpdateLabels_Latest(labels, matches) == matches

\* if matches: labels.update(matches)
UpdateLabels(labels, matches) ==
    IF matches # {} THEN labels \cup matches ELSE labels

EnqueueGuard_Always(scanned, limit) == TRUE

\* if pages_scanned < max_pages  (before the link extraction)
EnqueueGuard(scanned, limit) == scanned < limit

NewLinks_Unfiltered(base_url, anchors, visited) ==
    FindInternalLinks(base_url, anchors)

\* the links of the page that are appended to the queue
NewLinks(base_url, anchors, visited) ==
    SelectSeq(FindInternalLinks(base_url, anchors), LAMBDA link : link \notin visited)

\* fetch raises RequestException for a URL without scheme (MissingSchema)
CanSucceed(u) == u.scheme # ""

\* if delay: time.sleep(delay)
Sleeps(d) == d # 0

NoPage == Page(<<>>, <<>>)

\* a static site answers a URL the way it answered it before
Answers(u, ok, page) ==
    static => \A a \in served : a.url = u => (a.ok = ok /\ a.page = page)

Remember(u, ok, page) ==
    IF static THEN served \cup {[url |-> u, ok |-> ok, page |-> page]}
              ELSE served

LogEntry(u, ok, body, slept) ==
    [url |-> u, ok |-> ok, body |-> body, slept |-> slept]

SkipDuplicate_Counts ==
    /\ pc = "loop"
    /\ LoopGuard(queue, pages_scanned, max_pages)
    /\ AlreadySeen(Head(queue), seen)
    /\ current' = <<Head(queue)>>
    /\ queue' = Tail(queue)
    /\ skipped' = Append(skipped, Head(queue))
    /\ pages_scanned' = pages_scanned + 1
    /\ UNCHANGED <<mainVars, served, seen, certifications,
                   remote_environment_mentions,
                   pages_with_hits, html, pc, result, fetch_log, appended>>

\* the popped URL is already in seen: continue
SkipDuplicate ==
    /\ pc = "loop"
    /\ LoopGuard(queue, pages_scanned, max_pages)
    /\ AlreadySeen(Head(queue), seen)
    /\ current' = <<Head(queue)>>
    /\ queue' = Tail(queue)
    /\ skipped' = Append(skipped, Head(queue))
    /\ UNCHANGED <<mainVars, served, seen, certifications,
                   remote_environment_mentions, pages_scanned,
                   pages_with_hits, html, pc, result, fetch_log, appended>>

FetchFail_Counts ==
    /\ pc = "loop"
    /\ LoopGuard(queue, pages_scanned, max_pages)
    /\ ~AlreadySeen(Head(queue), seen)
    /\ Answers(Head(queue), FALSE, NoPage)
    /\ served' = Remember(Head(queue), FALSE, NoPage)
    /\ current' = <<Head(queue)>>
    /\ queue' = Tail(queue)
    /\ seen' = seen \cup {Head(queue)}
    /\ pages_scanned' = pages_scanned + 1
    /\ fetch_log' = Append(fetch_log, LogEntry(Head(queue), FALSE, <<>>, FALSE))
    /\ UNCHANGED <<mainVars, certifications,
                   remote_environment_mentions,
                   pages_with_hits, html, pc, result, skipped, appended>>

FetchFail_Retry ==
    /\ pc = "loop"
    /\ LoopGuard(queue, pages_scanned, max_pages)
    /\ ~AlreadySeen(Head(queue), seen)
    /\ Len(fetch_log) < 2
    /\ current' = <<Head(queue)>>
    /\ queue' = Append(Tail(queue), Head(queue))
    /\ fetch_log' = Append(fetch_log, LogEntry(Head(queue), FALSE, <<>>, FALSE))
    /\ UNCHANGED <<mainVars, served, seen, certifications,
                   remote_environment_mentions, pages_scanned,
                   pages_with_hits, html, pc, result, skipped, appended>>

FetchFail_Unmarked ==
    /\ pc = "loop"
    /\ LoopGuard(queue, pages_scanned, max_pages)
    /\ ~AlreadySeen(Head(queue), seen)
    /\ Answers(Head(queue), FALSE, NoPage)
    /\ served' = Remember(Head(queue), FALSE, NoPage)
    /\ current' = <<Head(queue)>>
    /\ queue' = Tail(queue)
    /\ seen' = seen
    /\ fetch_log' = Append(fetch_log, LogEntry(Head(queue), FALSE, <<>>, FALSE))
    /\ UNCHANGED <<mainVars, certifications,
                   remote_environment_mentions, pages_scanned,
                   pages_with_hits, html, pc, result, skipped, appended>>

\* fetch raises requests.RequestException: continue
FetchFail ==
    /\ pc = "loop"
    /\ LoopGuard(queue, pages_scanned, max_pages)
    /\ ~AlreadySeen(Head(queue), seen)
    /\ Answers(Head(queue), FALSE, NoPage)
    /\ served' = Remember(Head(queue), FALSE, NoPage)
    /\ current' = <<Head(queue)>>
    /\ queue' = Tail(queue)
    /\ seen' = seen \cup {Head(queue)}
    /\ fetch_log' = Append(fetch_log, LogEntry(Head(queue), FALSE, <<>>, FALSE))
    /\ UNCHANGED <<mainVars, certifications,
                   remote_environment_mentions, pages_scanned,
                   pages_with_hits, html, pc, result, skipped, appended>>

ScanPage_CountsRemote(cur, page) ==
    LET text == ExtractText(page.body)
        page_matches == MatchCertifications(text)
        remote_matches == MatchRemoteEnvironmentMentions(text)
    IN /\ current' = <<cur>>
       /\ seen' = seen \cup {cur}
       /\ html' = <<page>>
       /\ served' = Remember(cur, TRUE, page)
       /\ pages_scanned' = pages_scanned + 1
       /\ pages_with_hits' = CountHit(pages_with_hits, page_matches \cup remote_matches)
       /\ certifications' = UpdateLabels(certifications, page_matches)
       /\ remote_environment_mentions' =
             UpdateLabels(remote_environment_mentions, remote_matches)

\* lines 137-151 for a fetched page: mark, count, match
ScanPage(cur, page) ==
    LET text == ExtractText(page.body)
        page_matches == MatchCertifications(text)
        remote_matches == MatchRemoteEnvironmentMentions(text)
    IN /\ current' = <<cur>>
       /\ seen' = seen \cup {cur}
       /\ html' = <<page>>
       /\ served' = Remember(cur, TRUE, page)
       /\ pages_scanned' = pages_scanned + 1
       /\ pages_with_hits' = CountHit(pages_with_hits, page_matches)
       /\ certifications' = UpdateLabels(certifications, page_matches)
       /\ remote_environment_mentions' =
             UpdateLabels(remote_environment_mentions, remote_matches)

\* find_internal_links is called on the page and raises
LinksRaise(cur, page) ==
    /\ EnqueueGuard(pages_scanned + 1, max_pages)
    /\ FindInternalLinksRaises(cur, page.anchors)

\* fetch returns the page: count, match, enqueue, sleep
FetchOk ==
    /\ pc = "loop"
    /\ LoopGuard(queue, pages_scanned, max_pages)
    /\ ~AlreadySeen(Head(queue), seen)
    /\ CanSucceed(Head(queue))
    /\ \E page \in Pages :
        LET cur == Head(queue)
        IN /\ Answers(cur, TRUE, page)
           /\ ~LinksRaise(cur, page)
           /\ ScanPage(cur, page)
           /\ LET links == IF EnqueueGuard(pages_scanned', max_pages)
                               THEN NewLinks(cur, page.anchors, seen')
                               ELSE <<>>
              IN /\ queue' = Extend(Tail(queue), links)
                 /\ appended' = appended \o
                       [i \in 1..Len(links) |->
                           Discovery(links[i], DepthOf(cur, appended) + 1)]
           /\ fetch_log' = Append(fetch_log,
                                  LogEntry(cur, TRUE, page.body, Sleeps(delay)))
    /\ UNCHANGED <<mainVars, pc, result, skipped>>

\* fetch returns the page and urljoin raises ValueError on one of its hrefs:
\* the exception leaves scan_site
LinkError ==
    /\ pc = "loop"
    /\ LoopGuard(queue, pages_scanned, max_pages)
    /\ ~AlreadySeen(Head(queue), seen)
    /\ CanSucceed(Head(queue))
    /\ \E page \in Pages :
        LET cur == Head(queue)
        IN /\ Answers(cur, TRUE, page)
           /\ LinksRaise(cur, page)
           /\ ScanPage(cur, page)
           /\ queue' = Tail(queue)
           /\ fetch_log' = Append(fetch_log, LogEntry(cur, TRUE, page.body, FALSE))
    /\ pc' = "raised"
    /\ UNCHANGED <<mainVars, result, skipped, appended>>

\* the loop condition is false: return ScanResult(...)
Finish ==
    /\ pc = "loop"
    /\ ~LoopGuard(queue, pages_scanned, max_pages)
    /\ pc' = "done"
    /\ result' = <<[url |-> url,
                    certifications |-> certifications,
                    remote_environment_mentions |-> remote_environment_mentions,
                    pages_scanned |-> pages_scanned,
                    pages_with_hits |-> pages_with_hits]>>
    /\ UNCHANGED <<mainVars, served, queue, seen, certifications,
                   remote_environment_mentions, pages_scanned,
                   pages_with_hits, current, html, fetch_log, skipped, appended>>

\* results.append(result)
Collect ==
    /\ pc = "done"
    /\ results' = Append(results, result[1])
    /\ pc' = "idle"
    /\ LocalsGone
    /\ UNCHANGED <<url, max_pages, delay, input, urls, site, report, mpc,
                   static, otherVars, served>>

\* except Exception: print the error, continue
DropSite ==
    /\ pc = "raised"
    /\ pc' = "idle"
    /\ LocalsGone
    /\ UNCHANGED <<mainVars, served>>

\* write_results(results, args.output)
WriteResults ==
    /\ mpc = "scan"
    /\ pc = "idle"
    /\ site = Len(urls)
    /\ report' = <<Rows(results)>>
    /\ mpc' = "written"
    /\ UNCHANGED <<url, max_pages, delay, input, urls, site, results, static, otherVars,
                   served, queue, seen, certifications,
                   remote_environment_mentions, pages_scanned, pages_with_hits,
                   current, html, pc, result, fetch_log, skipped, appended>>

Next ==
    \/ ReadUrls \/ ReadUrlsFail \/ StartScan
    \/ SkipDuplicate \/ FetchFail \/ FetchOk \/ LinkError \/ Finish
    \/ Collect \/ DropSite \/ WriteResults

Spec == Init /\ [][Next]_vars

\* main and the loop of scan_site run to their end: every enabled step is taken
LiveSpec == Spec /\ WF_vars(Next)

TypeOK ==
    /\ pages_scanned \in 0..MaxPagesBound
    /\ pc \in {"idle", "loop", "done", "raised"}
    /\ mpc \in {"read", "scan", "written", "fatal"}
    /\ Len(result) = (IF pc = "done" THEN 1 ELSE 0)
    /\ Len(report) = (IF mpc = "written" THEN 1 ELSE 0)

(***************************************************************************)
(* Properties of a site crawl.                                             *)
(***************************************************************************)
Range(q) == {q[i] : i \in 1..Len(q)}

LastFetch == fetch_log[Len(fetch_log)]

\* the successfully fetched entries of the log
Fetched == {i \in 1..Len(fetch_log) : fetch_log[i].ok}

\* a step of the loop of scan_site
InCrawl == pc = "loop"

\* C1: pages_scanned never exceeds max_pages, during the crawl and in the
\* returned ScanResult.
C1_PageBudget ==
    /\ pages_scanned <= max_pages
    /\ pc = "done" => result[1].pages_scanned <= max_pages

\* the budget, not the empty queue, ended the crawl
C1_Witness ==
    /\ pc = "done"
    /\ max_pages >= 2
    /\ result[1].pages_scanned = max_pages
    /\ queue # <<>>

\* C2: no URL is passed to fetch twice in one crawl, also when the queue held
\* several copies of it.
C2_NoRefetch ==
    \A i, j \in 1..Len(fetch_log) :
        fetch_log[i].url = fetch_log[j].url => i = j

\* a later copy of a fetched URL was popped and discarded
C2_Witness ==
    /\ skipped # <<>>
    /\ \E i \in 1..Len(fetch_log) : fetch_log[i].url = skipped[1]

\* C3: every URL of the visited set and of the queue is the normalized seed
\* or is same-domain with the seed.
C3_SameDomain ==
    \A u \in seen \cup Range(queue) :
        u = NormalizeUrl(url) \/ IsSameDomain(url, u)

\* a URL found on a page whose netloc is spelled differently from the seed's
C3_Witness ==
    /\ Len(fetch_log) >= 3
    /\ \E i \in Fetched : i < Len(fetch_log) /\ fetch_log[i].url.netloc # url.netloc
    /\ LastFetch.url.netloc # url.netloc
    /\ LastFetch.url # NormalizeUrl(url)

\* C4: every URL appended to the queue in a step is the normalized target of
\* an anchor of the fetched page whose href holds a keyword and resolves to
\* the domain of that page; keyword-less and cross-domain links add nothing.
C4_LinkFilter ==
    [][ InCrawl =>
          \A k \in 1..Len(queue') :
            (queue' # queue /\ k >= Len(queue)) =>
                \E i \in 1..Len(html'[1].anchors) :
                    LET a == html'[1].anchors[i]
                        absolute == UrlJoin(current'[1], a)
                    IN /\ a.kind # "nohref"
                       /\ HasLinkKeyword(a)
                       /\ IsSameDomain(current'[1], absolute)
                       /\ queue'[k] = NormalizeUrl(absolute) ]_vars

\* a page with a keyword-less link and a cross-domain keyword link was
\* fetched within the budget and its accepted links were appended
C4_Witness ==
    /\ fetch_log # <<>>
    /\ LastFetch.ok
    /\ current = <<LastFetch.url>>
    /\ pages_scanned < max_pages
    /\ \E i \in 1..Len(html[1].anchors) :
          /\ HasLinkKeyword(html[1].anchors[i])
          /\ ~IsSameDomain(current[1], UrlJoin(current[1], html[1].anchors[i]))
    /\ queue # <<>>
    /\ \A u \in Range(queue) : IsSameDomain(current[1], u)

\* C5: pages_with_hits never exceeds pages_scanned, during the crawl and in
\* the returned ScanResult.
C5_HitsBelowScanned ==
    /\ pages_with_hits <= pages_scanned
    /\ pc = "done" => result[1].pages_with_hits <= result[1].pages_scanned

C5_Witness ==
    /\ pc = "done"
    /\ result[1].pages_with_hits > 0
    /\ result[1].pages_with_hits < result[1].pages_scanned

\* C6: the returned label sets are the unions, over the successfully fetched
\* pages, of the labels whose rule matches the page's extracted text.
C6_LabelUnion ==
    pc = "done" =>
        /\ result[1].certifications =
              UNION {MatchCertifications(ExtractText(fetch_log[i].body)) : i \in Fetched}
        /\ result[1].remote_environment_mentions =
              UNION {MatchRemoteEnvironmentMentions(ExtractText(fetch_log[i].body)) :
                        i \in Fetched}

\* two fetched pages contributed different labels
C6_Witness ==
    /\ pc = "done"
    /\ \E i, j \in Fetched :
          /\ i < j
          /\ MatchCertifications(ExtractText(fetch_log[i].body)) # {}
          /\ MatchCertifications(ExtractText(fetch_log[j].body)) # {}
          /\ MatchCertifications(ExtractText(fetch_log[i].body))
                \cap MatchCertifications(ExtractText(fetch_log[j].body)) = {}
    /\ result[1].remote_environment_mentions # {}

\* a step that logged a failed fetch
FailedFetchStep ==
    /\ Len(fetch_log') = Len(fetch_log) + 1
    /\ ~fetch_log'[Len(fetch_log')].ok

\* C7: a failed fetch changes neither the counters nor the label sets, adds
\* nothing to the queue, marks the URL visited and leaves the crawl running.
C7_FailedFetchAbsorbed ==
    [][ FailedFetchStep =>
            /\ UNCHANGED <<pages_scanned, pages_with_hits, certifications,
                           remote_environment_mentions>>
            /\ queue' = Tail(queue)
            /\ seen' = seen \cup {Head(queue)}
            /\ pc' = "loop" ]_vars

\* the crawl went on to another URL after a failed fetch
C7_Witness ==
    \E i, j \in 1..Len(fetch_log) :
        i < j /\ ~fetch_log[i].ok /\ fetch_log[j].ok /\ i > 1

\* C8: when the fetch of the seed fails the crawl ends after that one fetch
\* with an all-empty ScanResult.
C8_SeedFailure ==
    (fetch_log # <<>> /\ ~fetch_log[1].ok) =>
        /\ Len(fetch_log) = 1
        /\ queue = <<>>
        /\ pc \in {"loop", "done"}
        /\ pages_scanned = 0 /\ pages_with_hits = 0
        /\ certifications = {} /\ remote_environment_mentions = {}
        /\ pc = "done" =>
              /\ result[1].pages_scanned = 0
              /\ result[1].pages_with_hits = 0
              /\ result[1].certifications = {}
              /\ result[1].remote_environment_mentions = {}

C8_Witness ==
    /\ pc = "done"
    /\ fetch_log # <<>>
    /\ ~fetch_log[1].ok
    /\ max_pages > 1
    /\ CanSucceed(fetch_log[1].url)

\* C9: every crawl that has started reaches Done.
C9_Terminates == (pc = "loop") ~> (pc = "done")

\* C10: the queue grows only in a successful fetch that leaves
\* pages_scanned < max_pages; the fetch that reaches max_pages appends
\* nothing and is the last fetch; with max_pages = 1 only the seed is fetched.
C10_EnqueueWithinBudget ==
    [][ InCrawl =>
        /\ (queue' # queue /\ Len(queue') >= Len(queue)) =>
              /\ Len(fetch_log') = Len(fetch_log) + 1
              /\ fetch_log'[Len(fetch_log')].ok
              /\ pages_scanned' < max_pages
        /\ (pages_scanned' = max_pages /\ pages_scanned' # pages_scanned) =>
              queue' = Tail(queue)
        /\ pages_scanned = max_pages =>
              fetch_log' = fetch_log /\ queue' = queue
        /\ max_pages = 1 =>
              \A i \in 1..Len(fetch_log') : fetch_log'[i].url = NormalizeUrl(url) ]_vars

\* max_pages = 1: the seed page had links the extractor accepts, none fetched
C10_Witness ==
    /\ pc = "done"
    /\ max_pages = 1
    /\ result[1].pages_scanned = 1
    /\ FindInternalLinks(current[1], html[1].anchors) # <<>>
    /\ Len(fetch_log) = 1
    /\ queue = <<>>

\* C11: two crawls of the same seed with the same max_pages against a static
\* site return the same ScanResult.
C11_Idempotent ==
    (static /\ Len(results) = 2 /\ urls[1] = urls[2]) => results[1] = results[2]

\* both crawls fetched several pages and found labels
C11_Witness ==
    /\ static
    /\ Len(results) = 2
    /\ urls[1] = urls[2]
    /\ results[2].pages_scanned >= 2
    /\ results[2].pages_with_hits >= 1
    /\ \E a \in served : ~a.ok

\* C12: the accumulated label sets only grow from step to step of a crawl
\* and are the sets of the returned ScanResult.
C12_LabelsGrow ==
    [][ InCrawl =>
          /\ certifications \subseteq certifications'
          /\ remote_environment_mentions \subseteq remote_environment_mentions'
          /\ pc' = "done" =>
                /\ certifications \subseteq result'[1].certifications
                /\ remote_environment_mentions \subseteq
                      result'[1].remote_environment_mentions ]_vars

\* a later page added labels to those of an earlier page
C12_Witness ==
    /\ pc = "loop"
    /\ \E i \in Fetched :
          LET first == MatchCertifications(ExtractText(fetch_log[i].body))
          IN /\ first # {}
             /\ first \subseteq certifications
             /\ first # certifications
             /\ LastFetch.ok
             /\ first \cap MatchCertifications(ExtractText(LastFetch.body)) = {}

\* C13: the report holds exactly one row per input URL, in input order.
C13_OneResultPerSite ==
    mpc = "written" =>
        /\ Len(report[1]) = Len(urls)
        /\ \A i \in 1..Len(urls) : report[1][i].url = urls[i]

\* no pass of the loop has run in the crawl
AtCrawlStart == pc = "loop" /\ fetch_log = <<>> /\ skipped = <<>>

\* C14: every crawl starts with an empty visited set, a queue holding only
\* its own normalized seed, zero counters and empty label sets, whatever was
\* crawled before; its first pass fetches its seed.
C14_FreshCrawl ==
    /\ AtCrawlStart =>
          /\ seen = {}
          /\ queue = <<NormalizeUrl(url)>>
          /\ pages_scanned = 0 /\ pages_with_hits = 0
          /\ certifications = {} /\ remote_environment_mentions = {}
    /\ (pc = "loop" /\ ~AtCrawlStart) =>
          fetch_log # <<>> /\ fetch_log[1].url = NormalizeUrl(url)

\* the URL crawled as the first site is fetched again as the second site
C14_Witness ==
    /\ site = 2
    /\ urls[1] = urls[2]
    /\ Len(results) = 1
    /\ results[1].pages_scanned >= 1
    /\ fetch_log # <<>>
    /\ fetch_log[1].ok
    /\ fetch_log[1].url = NormalizeUrl(urls[1])

\* C16: with a non-zero delay, a sleep follows every fetch attempt that
\* failed and every fetch attempt that is followed by another one.
C16_DelayAfterEveryPage ==
    \A i \in 1..Len(fetch_log) :
        (Sleeps(delay) /\ (~fetch_log[i].ok \/ i < Len(fetch_log))) =>
            fetch_log[i].slept

\* C17: when the input file cannot be read, main ends with the error before
\* any crawl: no fetch, no result, no report.
C17_UnreadableInputFatal ==
    ~input.readable =>
        /\ mpc \in {"read", "fatal"}
        /\ pc = "idle"
        /\ site = 0
        /\ fetch_log = <<>>
        /\ results = <<>>
        /\ report = <<>>

C17_Witness == mpc = "fatal" /\ ~input.readable /\ max_pages > 0

\* C19: a pass that pops an already visited URL fetches nothing and changes
\* neither the counters, the label sets nor the visited set; it only removes
\* the front of the queue.
C19_SkipFrame ==
    [][ (InCrawl /\ skipped' # skipped) =>
            /\ UNCHANGED <<fetch_log, pages_scanned, pages_with_hits,
                           certifications, remote_environment_mentions, seen>>
            /\ queue' = Tail(queue)
            /\ skipped' = Append(skipped, Head(queue))
            /\ Head(queue) \in seen ]_vars

\* a duplicate was just skipped and the crawl still has budget and work
C19_Witness ==
    /\ pc = "loop"
    /\ skipped # <<>>
    /\ current = <<skipped[Len(skipped)]>>
    /\ pages_scanned >= 1
    /\ pages_scanned < max_pages
    /\ queue # <<>>

\* C20: in a step of the crawl the queue loses its front or stays, and gains
\* elements only at its back, each absent from the visited set at that time.
C20_QueueDiscipline ==
    [][ InCrawl =>
          \/ queue' = queue
          \/ /\ Len(queue') >= Len(queue) - 1
             /\ SubSeq(queue', 1, Len(queue) - 1) = Tail(queue)
             /\ \A k \in Len(queue)..Len(queue') : queue'[k] \notin seen' ]_vars

\* the queue held a URL twice: its first copy was fetched, its second copy
\* is still queued although the URL is visited by now
C20_Witness ==
    /\ pc = "loop"
    /\ \E k \in 1..Len(queue) :
          /\ queue[k] \in seen
          /\ \E i \in 1..Len(fetch_log) : fetch_log[i].url = queue[k]


\* the position of the first entry of the append log that holds u
FirstAppend(u) ==
    CHOOSE i \in 1..Len(appended) :
        /\ appended[i].url = u
        /\ \A j \in 1..(i - 1) : appended[j].url # u

\* C21: a crawl is breadth-first: the seed is the first URL fetched, URLs are
\* attempted in the order of their first append to the queue, and the link
\* depth of successively attempted URLs never decreases.
C21_BreadthFirst ==
    pc \in {"loop", "done", "raised"} =>
        /\ fetch_log # <<>> => fetch_log[1].url = NormalizeUrl(url)
        /\ \A i \in 1..Len(fetch_log) :
              \E k \in 1..Len(appended) : appended[k].url = fetch_log[i].url
        /\ \A i, j \in 1..Len(fetch_log) :
              i < j =>
                /\ FirstAppend(fetch_log[i].url) < FirstAppend(fetch_log[j].url)
                /\ DepthOf(fetch_log[i].url, appended)
                      <= DepthOf(fetch_log[j].url, appended)

\* three URLs at depths 0, 1 and 2 were attempted, one of them appended twice
C21_Witness ==
    /\ pc = "loop"
    /\ Len(fetch_log) >= 3
    /\ DepthOf(fetch_log[2].url, appended) = 1
    /\ DepthOf(fetch_log[Len(fetch_log)].url, appended) = 2
    /\ \E k, l \in 1..Len(appended) : k < l /\ appended[k].url = appended[l].url

\* the entries of the fetch log whose page matched a certification rule
CertificationPages ==
    {i \in Fetched : MatchCertifications(ExtractText(fetch_log[i].body)) # {}}

\* C24: pages_with_hits is the number of fetched pages whose text matched a
\* certification rule; a page that matches only remote-environment rules adds
\* its labels to remote_environment_mentions and is not counted.
C24_HitsCountCertificationPages ==
    /\ pc \in {"loop", "done", "raised"} =>
          /\ pages_with_hits = Cardinality(CertificationPages)
          /\ \A i \in Fetched :
                MatchRemoteEnvironmentMentions(ExtractText(fetch_log[i].body))
                    \subseteq remote_environment_mentions
    /\ pc = "done" => result[1].pages_with_hits = Cardinality(CertificationPages)

\* a finished crawl that fetched a page with only a remote-environment label
\* and a page with a certification label
C24_Witness ==
    /\ pc = "done"
    /\ result[1].pages_with_hits = 1
    /\ \E i \in Fetched \ CertificationPages :
          MatchRemoteEnvironmentMentions(ExtractText(fetch_log[i].body)) # {}

\* two URLs that differ at most in their fragment and their trailing slashes
Variants(u, v) ==
    /\ u.scheme = v.scheme
    /\ u.netloc = v.netloc
    /\ u.path = v.path

\* a URL without fragment and without trailing slash (a string of slashes
\* only keeps them)
IsNormalized(u) ==
    /\ u.fragment = ""
    /\ u.slashes = 0 \/ (u.scheme = "" /\ u.netloc = "" /\ u.path = <<>>)

\* C25: the seed and every link are normalized before they are compared with
\* the visited set, so of the URLs that differ only in their fragment or in
\* trailing slashes (variants of the seed included) at most one is fetched.
C25_VariantsFetchedOnce ==
    pc \in {"loop", "done", "raised"} =>
        /\ \A k \in 1..Len(queue) : IsNormalized(queue[k])
        /\ \A u \in seen : IsNormalized(u)
        /\ \A i, j \in 1..Len(fetch_log) :
              i # j => ~Variants(fetch_log[i].url, fetch_log[j].url)

\* the seed was given with a trailing slash and fetched without it; on two
\* pages links to one target were found, and the target was fetched
C25_Witness ==
    /\ pc = "loop"
    /\ url.slashes > 0
    /\ fetch_log # <<>>
    /\ fetch_log[1].url # url
    /\ Variants(fetch_log[1].url, url)
    /\ \E k, l \in 2..Len(appended) :
          /\ k < l
          /\ appended[k].url = appended[l].url
          /\ \E i \in 1..Len(fetch_log) : fetch_log[i].url = appended[k].url

\* the entries of the fetch log whose fetch raised
FailedFetches == {i \in 1..Len(fetch_log) : ~fetch_log[i].ok}

\* C26: the visited set holds one URL per fetch attempt: its size is
\* pages_scanned plus the number of failed fetches; the attempts of a crawl
\* are bounded by one plus the number of links appended to the queue, not
\* by max_pages.
C26_VisitedCountsAttempts ==
    pc \in {"loop", "done", "raised"} =>
        /\ Cardinality(seen) = pages_scanned + Cardinality(FailedFetches)
        /\ Cardinality(seen) = Len(fetch_log)
        /\ pages_scanned <= Cardinality(seen)
        /\ pages_scanned <= max_pages
        /\ Len(fetch_log) <= 1 + (Len(appended) - 1)

\* a crawl with more fetch attempts than max_pages
C26_Witness ==
    /\ pc = "done"
    /\ max_pages > 0
    /\ pages_scanned = max_pages
    /\ Len(fetch_log) > max_pages
    /\ Len(appended) > Len(fetch_log)

(***************************************************************************)
(* Functions applied on their own: fn_args holds the name of the function  *)
(* and its arguments, fn_value is <<>> before the call and <<value>> after *)
(* it.                                                                     *)
(***************************************************************************)

\* the host of a netloc, as urlparse(...).hostname gives it before lowering:
\* the netloc without its port
Hostname(netloc) ==
    CASE netloc = "acme.com:8443" -> "acme.com"
      [] OTHER -> netloc

\* the netlocs is_same_domain is applied to
Netlocs == {"acme.com", "ACME.com", "acme.com:8443", "other.com"}

\* the URLs is_same_domain is applied to
SameDomainUrls ==
    {Url(s, n, p, 0, "") : s \in {"http", "https"}, n \in Netlocs,
                           p \in {<<>>, <<"security">>}}

SameDomainCalls ==
    {[fn |-> "is_same_domain", base |-> b, target |-> t] :
        b \in SameDomainUrls, t \in SameDomainUrls}

\* main and scan_site have not started
ScraperIdle ==
    /\ max_pages = 0
    /\ delay = 0
    /\ static = FALSE
    /\ input = InputFile(TRUE, <<>>)
    /\ urls = <<>>
    /\ site = 0
    /\ results = <<>>
    /\ report = <<>>
    /\ mpc = "read"
    /\ served = {}
    /\ url = NoUrl
    /\ queue = <<>>
    /\ seen = {}
    /\ certifications = {}
    /\ remote_environment_mentions = {}
    /\ pages_scanned = 0
    /\ pages_with_hits = 0
    /\ current = <<>>
    /\ html = <<>>
    /\ pc = "idle"
    /\ result = <<>>
    /\ fetch_log = <<>>
    /\ skipped = <<>>
    /\ appended = <<>>

\* the sequences of at most n elements of the set S
SeqsUpTo(S, n) == UNION {[1..k -> S] : k \in 0..n}

\* the anchors find_internal_links is applied to
LinkAnchors ==
    {Security, TrustTop, Trust, UpperHost, OtherHost, About, MailTo, Privacy,
     Sibling, NoHref, Bracket}

MaxAnchors == 2

\* the pages find_internal_links is applied to: the short ones, and two with
\* several hrefs of one target
LinkPages ==
    SeqsUpTo(LinkAnchors, MaxAnchors)
    \cup {<<Trust, Security, NoHref, TrustTop, UpperHost, Security>>,
          <<TrustTop, OtherHost, Security, Trust, MailTo, Privacy, Security>>}

\* the normalized URLs of the pages
LinkBases ==
    {Url("https", "acme.com", <<>>, 0, ""),
     Url("https", "ACME.com", <<"security">>, 0, ""),
     Url("https", "acme.com", <<"trust">>, 0, "")}

FindInternalLinksCalls ==
    {[fn |-> "find_internal_links", base_url |-> b, anchors |-> a] :
        b \in LinkBases, a \in LinkPages}

\* the words of the texts the matchers are applied to
MatchWords ==
    {"SOC", "soc", "2", "3", "soc2", "HIPAA", "Citrix", "VDI", "Remote",
     "Desktop", "Azure", "Virtual", "the"}

MaxWords == 2

MatchTexts ==
    SeqsUpTo(MatchWords, MaxWords)
    \cup {<<"Azure", "Virtual", "Desktop">>,
          <<"SOC", "2", "soc", "3", "HIPAA", "Citrix">>}

MatchCalls ==
    {[fn |-> f, text |-> t] :
        f \in {"match_certifications", "match_remote_environment_mentions"},
        t \in MatchTexts}

FnInit ==
    /\ ScraperIdle
    /\ DiscoveryIdle
    /\ fn_args \in SameDomainCalls \cup FindInternalLinksCalls \cup MatchCalls
    /\ fn_value = <<>>

CallIsSameDomain ==
    /\ fn_value = <<>>
    /\ fn_args.fn = "is_same_domain"
    /\ fn_value' = <<IsSameDomain(fn_args.base, fn_args.target)>>
    /\ UNCHANGED <<scraperVars, discoveryVars, fn_args>>

\* the value of a call that returns v, and of a call that raises
Returned(v) == [raised |-> FALSE, value |-> v]
Raised == [raised |-> TRUE]

CallFindInternalLinks ==
    /\ fn_value = <<>>
    /\ fn_args.fn = "find_internal_links"
    /\ fn_value' =
          <<IF FindInternalLinksRaises(fn_args.base_url, fn_args.anchors)
               THEN Raised
               ELSE Returned(FindInternalLinks(fn_args.base_url, fn_args.anchors))>>
    /\ UNCHANGED <<scraperVars, discoveryVars, fn_args>>

CallMatchCertifications ==
    /\ fn_value = <<>>
    /\ fn_args.fn = "match_certifications"
    /\ fn_value' = <<Returned(MatchCertifications(fn_args.text))>>
    /\ UNCHANGED <<scraperVars, discoveryVars, fn_args>>

CallMatchRemoteEnvironmentMentions ==
    /\ fn_value = <<>>
    /\ fn_args.fn = "match_remote_environment_mentions"
    /\ fn_value' = <<Returned(MatchRemoteEnvironmentMentions(fn_args.text))>>
    /\ UNCHANGED <<scraperVars, discoveryVars, fn_args>>

FnNext ==
    \/ CallIsSameDomain
    \/ CallFindInternalLinks
    \/ CallMatchCertifications
    \/ CallMatchRemoteEnvironmentMentions

FnSpec == FnInit /\ [][FnNext]_vars

\* C15: is_same_domain(base, target) is true exactly when the two URLs have
\* the same host, compared without case and ignoring scheme, port and userinfo
C15_SameHost ==
    (fn_value # <<>> /\ fn_args.fn = "is_same_domain") =>
        (fn_value[1] <=> (Lower(Hostname(fn_args.base.netloc))
                            = Lower(Hostname(fn_args.target.netloc))))

C23_MatchersExact ==
    [][ (fn_value = <<>> /\ fn_value' # <<>>
         /\ fn_args.fn \in {"match_certifications",
                            "match_remote_environment_mentions"}) =>
          LET text == fn_args.text
              matches == fn_value'[1].value
          IN /\ ~fn_value'[1].raised
             /\ IF fn_args.fn = "match_certifications"
                   THEN /\ matches \subseteq CertificationLabels
                        /\ \A label \in CertificationLabels :
                              label \in matches <=> CERTIFICATION_PATTERNS(label, text)
                   ELSE /\ matches \subseteq RemoteEnvLabels
                        /\ \A label \in RemoteEnvLabels :
                              label \in matches <=> REMOTE_ENV_PATTERNS(label, text)
             /\ text = <<>> => matches = {}
             /\ UNCHANGED <<scraperVars, discoveryVars, fn_args>> ]_vars

\* a text that matches several certification rules
C23_Witness ==
    /\ fn_value # <<>>
    /\ fn_args.fn = "match_certifications"
    /\ fn_value[1].value = {"SOC 2", "SOC 3", "HIPAA"}

(***************************************************************************)
(* discovery.py.  The URLs a search result points to are Url records; the  *)
(* substring tests of is_valid_bpo_url are tables over the netlocs and     *)
(* path segments of the result URLs below.                                 *)
(***************************************************************************)
excluded_domains ==
    {"google.com", "bing.com", "yahoo.com", "facebook.com", "twitter.com",
     "linkedin.com", "youtube.com", "wikipedia.org", "forbes.com",
     "indeed.com", "glassdoor.com", "clutch.co", "gartner.com",
     "duckduckgo.com", "netquote.com", "capterra.com", "trustpilot.com",
     "bbb.org", "reddit.com", "quora.com", "instagram.com",
     "goodfirms.co", "upwork.com", "fiverr.com", "pinterest.com"}

\* the excluded domains that occur as a substring of the lowered netloc
ExcludedDomainsIn(domain_lower) ==
    (IF domain_lower \in excluded_domains THEN {domain_lower} ELSE {})
    \cup CASE domain_lower = "www.linkedin.com" -> {"linkedin.com"}
           [] domain_lower = "mygoogle.com.au" -> {"google.com"}
           [] OTHER -> {}

\* the excluded path words a first path segment starts with
ExcludedPathStarts(segment) ==
    CASE segment = "search" -> {"search"}
      [] segment = "maps" -> {"maps"}
      [] segment = "news" -> {"news"}
      [] segment = "newsroom" -> {"news"}
      [] segment = "images" -> {"images"}
      [] OTHER -> {}

\* parsed.path.startswith(excluded) for one of
\* "/search", "/maps", "/news", "/images", "/blog/"
HasExcludedPath(u) ==
    /\ u.path # <<>>
    /\ \/ ExcludedPathStarts(u.path[1]) # {}
       \/ u.path[1] = "blog" /\ (Len(u.path) > 1 \/ u.slashes > 0)

\* the ad words that occur as a substring of a lowered part of the URL
AdWordsIn(part) ==
    CASE part = "aclick" -> {"aclick"}
      [] part = "ad_provider" -> {"ad_provider"}
      [] part = "click_metadata" -> {"click_metadata"}
      [] OTHER -> {}

\* any(word in url.lower() for word in
\*     ["aclick", "ad_provider", "click_metadata", "/aff/"])
HasAdWord(u) ==
    \/ AdWordsIn(Lower(u.netloc)) # {}
    \/ AdWordsIn(Lower(u.fragment)) # {}
    \/ \E i \in 1..Len(u.path) :
          \/ AdWordsIn(Lower(u.path[i])) # {}
          \/ Lower(u.path[i]) = "aff" /\ (i < Len(u.path) \/ u.slashes > 0)
    \/ /\ Lower(u.netloc) = "aff"
       /\ u.scheme # ""
       /\ (u.path # <<>> \/ u.slashes > 0)

\* is_valid_bpo_url
IsValidBpoUrl(u) ==
    /\ u.netloc # ""
    /\ ExcludedDomainsIn(Lower(u.netloc)) = {}
    /\ ~HasExcludedPath(u)
    /\ ~HasAdWord(u)

\* domain[4:] if domain.startswith("www.")
StripWww(domain) ==
    CASE domain = "www.acme.com" -> "acme.com"
      [] domain = "www.linkedin.com" -> "linkedin.com"
      [] domain = "www." -> ""
      [] OTHER -> domain

\* extract_domain_from_url: f"https://{domain}"
ExtractDomainFromUrl(u) == Url("https", StripWww(Lower(u.netloc)), <<>>, 0, "")

\* urlparse raises ValueError (Invalid IPv6 URL) on the URL
UrlParseRaises(u) == BracketsUnmatched(u.netloc)

(***************************************************************************)
(* Search result pages.  An anchor of a result page is a record: `form` is *)
(* the form of its href, `actual` the URL the href wraps (percent-encoded  *)
(* in the href, decoded by parse_qs or unquote), `result` whether it has   *)
(* the class of a DuckDuckGo result link.                                  *)
(*   "url?q"  /url?q=<actual>&...        "url?"  /url? without q           *)
(*   "http"   <actual>, an absolute URL  "uddg"  ...?uddg=<actual>&...     *)
(*   "uddg="  ...?uddg=&...              "other" any other href            *)
(***************************************************************************)
Quoted(u) == [quoted |-> u]

\* unquote(encoded_url), parse_qs(...)["q"][0]
Unquote(e) == e.quoted

SearchAnchor(f, e, r) == [form |-> f, encoded |-> e, result |-> r]

ActualUrl(a) == Unquote(a.encoded)

AcmeAbout == Url("http", "www.acme.com", <<"about">>, 0, "")
AcmeUpper == Url("https", "WWW.Acme.com", <<>>, 1, "")
BetaServices == Url("https", "betabpo.com", <<"services">>, 0, "")
LinkedInPage == Url("https", "www.linkedin.com", <<"company", "acme">>, 0, "")
GoogleLookalike == Url("https", "mygoogle.com.au", <<>>, 0, "")
BlogPost == Url("https", "gamma.io", <<"blog", "post">>, 0, "")
Newsroom == Url("https", "gamma.io", <<"newsroom">>, 0, "")
Affiliate == Url("https", "delta.io", <<"aff", "x">>, 0, "")
AdClick == Url("https", "delta.io", <<"aclick">>, 0, "")
NoNetloc == Url("", "", <<"preferences">>, 0, "")
WwwOnly == Url("http", "www.", <<>>, 1, "")
BadBracket == Url("http", "[security", <<>>, 0, "")
AdRedirect == Url("https", "ads.io", <<"duckduckgo.com", "y.js">>, 0, "")

Wrapped(u) == SearchAnchor("url?q", Quoted(u), FALSE)
Direct(u) == SearchAnchor("http", Quoted(u), FALSE)
Uddg(u) == SearchAnchor("uddg", Quoted(u), TRUE)
Plain == SearchAnchor("other", Quoted(NoNetloc), FALSE)
NoQ == SearchAnchor("url?", Quoted(NoNetloc), FALSE)
UddgEmpty == SearchAnchor("uddg=", Quoted(NoNetloc), TRUE)
UddgUnclassed == SearchAnchor("uddg", Quoted(BetaServices), FALSE)

ResultPage(t, a) == [unusual |-> t, anchors |-> a]

\* a full page of results, one company each
TenHosts ==
    <<"bpo0.com", "bpo1.com", "bpo2.com", "bpo3.com", "bpo4.com", "bpo5.com",
      "bpo6.com", "bpo7.com", "bpo8.com", "bpo9.com">>

TenResults ==
    [i \in 1..Len(TenHosts) |-> Wrapped(Url("https", TenHosts[i], <<>>, 1, ""))]

\* the pages Google answers with
GooglePages ==
    { ResultPage(FALSE, <<Wrapped(AcmeAbout), Wrapped(LinkedInPage),
                          Direct(BetaServices), Plain, NoQ>>),
      ResultPage(FALSE, <<Wrapped(AcmeUpper), Wrapped(BlogPost),
                          Wrapped(Affiliate), Direct(GoogleLookalike), Plain>>),
      ResultPage(FALSE, <<Wrapped(Newsroom), Wrapped(AdClick),
                          Wrapped(NoNetloc), Plain, Plain>>),
      ResultPage(FALSE, <<Wrapped(BetaServices), Wrapped(BadBracket),
                          Wrapped(AcmeAbout), Plain, Plain>>),
      ResultPage(FALSE, <<Wrapped(WwwOnly), Plain, Plain, Plain, Plain>>),
      ResultPage(FALSE, <<Wrapped(BetaServices)>>),
      ResultPage(FALSE, TenResults),
      ResultPage(FALSE, TenResults \o <<Wrapped(BadBracket)>>),
      ResultPage(FALSE, <<Wrapped(BadBracket), Wrapped(AcmeAbout), Plain, Plain,
                          Plain>>),
      ResultPage(TRUE, <<Wrapped(AcmeAbout), Plain, Plain, Plain, Plain>>) }

\* the pages DuckDuckGo answers with
DuckDuckGoPages ==
    { ResultPage(FALSE, <<Uddg(AcmeAbout), Uddg(LinkedInPage), Plain,
                          Uddg(BetaServices), UddgEmpty, UddgUnclassed>>),
      ResultPage(FALSE, <<Uddg(AcmeUpper), Uddg(BlogPost), Uddg(Affiliate),
                          Uddg(Newsroom), Uddg(AdRedirect)>>),
      ResultPage(FALSE, <<Uddg(BetaServices), Uddg(BadBracket), Uddg(AcmeAbout)>>),
      ResultPage(FALSE, <<Uddg(WwwOnly)>>),
      ResultPage(FALSE, <<>>) }

\* "duckduckgo.com/y.js" in actual_url
IsAdRedirect(u) ==
    \E i \in 1..Len(u.path) :
        /\ u.path[i] = "y.js"
        /\ IF i = 1 THEN u.netloc = "duckduckgo.com"
                    ELSE u.path[i - 1] = "duckduckgo.com"

\* the outcome of a loop over anchors: the set so far, and whether the loop
\* was left by an exception
Outcome(found, r) == [urls |-> found, raised |-> r]

\* for anchor in soup.find_all("a", href=True): the loop over a Google page
RECURSIVE GoogleAnchors(_, _)
GoogleAnchors(anchors, found) ==
    IF anchors = <<>> THEN Outcome(found, FALSE)
    ELSE LET anchor == Head(anchors)
             actual_url == ActualUrl(anchor)
         IN IF anchor.form \in {"url?q", "http"}
               THEN IF UrlParseRaises(actual_url)
                       THEN Outcome(found, TRUE)
                       ELSE IF IsValidBpoUrl(actual_url)
                               THEN GoogleAnchors(Tail(anchors),
                                       found \cup {ExtractDomainFromUrl(actual_url)})
                               ELSE GoogleAnchors(Tail(anchors), found)
               ELSE GoogleAnchors(Tail(anchors), found)

\* for link in result_links: the loop over a DuckDuckGo page
RECURSIVE DuckDuckGoLinks(_, _, _)
DuckDuckGoLinks(result_links, found, num_results) ==
    IF result_links = <<>> THEN Outcome(found, FALSE)
    ELSE LET link == Head(result_links)
             actual_url == ActualUrl(link)
             added == IF IsValidBpoUrl(actual_url) /\ ~IsAdRedirect(actual_url)
                         THEN found \cup {ExtractDomainFromUrl(actual_url)}
                         ELSE found
         IN CASE link.form = "uddg" ->
                    IF UrlParseRaises(actual_url) THEN Outcome(found, TRUE)
                    ELSE IF Cardinality(added) >= num_results
                            THEN Outcome(added, FALSE)
                            ELSE DuckDuckGoLinks(Tail(result_links), added, num_results)
              [] link.form = "uddg=" ->
                    IF Cardinality(found) >= num_results
                       THEN Outcome(found, FALSE)
                       ELSE DuckDuckGoLinks(Tail(result_links), found, num_results)
              [] OTHER -> DuckDuckGoLinks(Tail(result_links), found, num_results)

\* soup.find_all("a", class_=["result__a", "result__url"])
ResultLinks(anchors) == SelectSeq(anchors, LAMBDA a : a.result)

\* scrape_duckduckgo_results for one response; <<>> when the request raises
ScrapeDuckDuckGoResults(response, num_results) ==
    IF response = <<>> THEN {}
    ELSE DuckDuckGoLinks(ResultLinks(response[1].anchors), {}, num_results).urls

\* "detected unusual traffic" in the text, or fewer than 5 anchors
MinAnchors == 5

LooksBlocked(p) == p.unusual \/ Len(p.anchors) < MinAnchors

\* max_pages = (num_results // 10) + 1
PageSize == 10

GoogleMaxPages(num_results) == (num_results \div PageSize) + 1

(***************************************************************************)
(* discover_bpo_websites.  dpc is the position: "query" at the head of the *)
(* loop over the queries, "google" at the head of the page loop of         *)
(* scrape_google_results, "google_end" after that loop, "returned" after   *)
(* discover_bpo_websites.  requested logs the start offset of every        *)
(* request of the current Google query, per_query the set every query      *)
(* returned.                                                               *)
(***************************************************************************)
MaxQueries == 2

\* the values of results_per_query
ResultTargets == {0, 1, 2, 10, 20}

DiscoveryInit ==
    /\ ScraperIdle
    /\ FnIdle
    /\ search_engine \in {"google", "duckduckgo", "DuckDuckGo"}
    /\ queries \in {[i \in 1..n |-> "insurance BPO company"] : n \in 0..MaxQueries}
    /\ results_per_query \in ResultTargets
    /\ all_urls = {}
    /\ query_index = 0
    /\ dpc = "query"
    /\ discovered_urls = {}
    /\ page_index = 0
    /\ start = 0
    /\ requested = <<>>
    /\ per_query = <<>>

\* if search_engine.lower() == "duckduckgo"
UsesDuckDuckGo == Lower(search_engine) = "duckduckgo"

\* one query through scrape_duckduckgo_results, and all_urls.update(urls)
DuckDuckGoQuery ==
    /\ dpc = "query"
    /\ query_index < Len(queries)
    /\ UsesDuckDuckGo
    /\ \E response \in {<<>>} \cup {<<p>> : p \in DuckDuckGoPages} :
         LET returned == ScrapeDuckDuckGoResults(response, results_per_query)
         IN /\ all_urls' = all_urls \cup returned
            /\ per_query' = Append(per_query, returned)
    /\ query_index' = query_index + 1
    /\ UNCHANGED <<scraperVars, fnVars, search_engine, queries,
                   results_per_query, dpc, discovered_urls, page_index, start,
                   requested>>

\* an entry of the log of the requests of one Google query: the offset asked
\* for, what came back ("raised": the request raised, "blocked": a block
\* page, "error": the processing of the page raised, "page": the page was
\* processed) and the number of URLs collected after it
Request(s, r, n) == [start |-> s, response |-> r, found |-> n]

\* entry of scrape_google_results
GoogleStart ==
    /\ dpc = "query"
    /\ query_index < Len(queries)
    /\ ~UsesDuckDuckGo
    /\ discovered_urls' = {}
    /\ start' = 0
    /\ page_index' = 0
    /\ requested' = <<>>
    /\ dpc' = "google"
    /\ UNCHANGED <<scraperVars, fnVars, search_engine, queries,
                   results_per_query, all_urls, query_index, per_query>>

GoogleRequestFails_Advances ==
    /\ dpc = "google"
    /\ page_index < GoogleMaxPages(results_per_query)
    /\ requested' = Append(requested,
                           Request(start, "raised", Cardinality(discovered_urls)))
    /\ page_index' = page_index + 1
    /\ start' = start + PageSize
    /\ UNCHANGED <<scraperVars, fnVars, search_engine, queries,
                   results_per_query, all_urls, query_index, per_query, dpc,
                   discovered_urls>>

\* requests.get or raise_for_status raises: continue
GoogleRequestFails ==
    /\ dpc = "google"
    /\ page_index < GoogleMaxPages(results_per_query)
    /\ requested' = Append(requested,
                           Request(start, "raised", Cardinality(discovered_urls)))
    /\ page_index' = page_index + 1
    /\ UNCHANGED <<scraperVars, fnVars, search_engine, queries,
                   results_per_query, all_urls, query_index, per_query, dpc,
                   discovered_urls, start>>

\* the page looks like a block page: break
GoogleBlocked ==
    /\ dpc = "google"
    /\ page_index < GoogleMaxPages(results_per_query)
    /\ \E p \in GooglePages : LooksBlocked(p)
    /\ requested' = Append(requested,
                           Request(start, "blocked", Cardinality(discovered_urls)))
    /\ dpc' = "google_end"
    /\ UNCHANGED <<scraperVars, fnVars, search_engine, queries,
                   results_per_query, all_urls, query_index, per_query,
                   discovered_urls, page_index, start>>

\* a result page: collect its URLs, then break, continue or go to the next page
GooglePage ==
    /\ dpc = "google"
    /\ page_index < GoogleMaxPages(results_per_query)
    /\ \E p \in GooglePages :
         LET outcome == GoogleAnchors(p.anchors, discovered_urls)
             enough == Cardinality(outcome.urls) >= results_per_query
             nothing == page_index = 0 /\ outcome.urls = {}
         IN /\ ~LooksBlocked(p)
            /\ discovered_urls' = outcome.urls
            /\ requested' = Append(requested,
                                   Request(start,
                                           IF outcome.raised THEN "error" ELSE "page",
                                           Cardinality(outcome.urls)))
            /\ IF outcome.raised
                  THEN /\ page_index' = page_index + 1
                       /\ UNCHANGED <<start, dpc>>
                  ELSE IF enough \/ nothing
                          THEN /\ dpc' = "google_end"
                               /\ UNCHANGED <<start, page_index>>
                          ELSE /\ start' = start + PageSize
                               /\ page_index' = page_index + 1
                               /\ UNCHANGED dpc
    /\ UNCHANGED <<scraperVars, fnVars, search_engine, queries,
                   results_per_query, all_urls, query_index, per_query>>

\* return discovered_urls, and all_urls.update(urls)
GoogleReturn ==
    /\ \/ dpc = "google_end"
       \/ dpc = "google" /\ page_index = GoogleMaxPages(results_per_query)
    /\ all_urls' = all_urls \cup discovered_urls
    /\ per_query' = Append(per_query, discovered_urls)
    /\ query_index' = query_index + 1
    /\ dpc' = "query"
    /\ UNCHANGED <<scraperVars, fnVars, search_engine, queries,
                   results_per_query, discovered_urls, page_index, start,
                   requested>>

\* return all_urls
DiscoverReturn ==
    /\ dpc = "query"
    /\ query_index = Len(queries)
    /\ dpc' = "returned"
    /\ UNCHANGED <<scraperVars, fnVars, search_engine, queries,
                   results_per_query, all_urls, query_index, per_query,
                   discovered_urls, page_index, start, requested>>

DiscoveryNext ==
    \/ DuckDuckGoQuery \/ GoogleStart \/ GoogleRequestFails \/ GoogleBlocked
    \/ GooglePage \/ GoogleReturn \/ DiscoverReturn

DiscoverySpec == DiscoveryInit /\ [][DiscoveryNext]_vars

\* discover_bpo_websites runs to its end: every enabled step is taken
DiscoveryLiveSpec == DiscoverySpec /\ WF_vars(DiscoveryNext)

\* the form https://<host>: a host and nothing after it
IsSchemeHostForm(u) ==
    /\ u.scheme = "https"
    /\ u.netloc # ""
    /\ u.path = <<>>
    /\ u.slashes = 0
    /\ u.fragment = ""

\* C18: every URL that discover_bpo_websites returns is accepted by
\* is_valid_bpo_url and has the form https://<host> without a path, and
\* the returned set is the union of the sets the queries returned
C18_DiscoveredUrlsValid ==
    dpc = "returned" =>
        /\ \A u \in all_urls : IsValidBpoUrl(u) /\ IsSchemeHostForm(u)
        /\ all_urls = UNION Range(per_query)

\* the requests of the current Google query obey the paging rules
GooglePagingRules ==
    LET n == Len(requested)
        Stops(i) ==
            \/ requested[i].response = "blocked"
            \/ /\ requested[i].response = "page"
               /\ \/ requested[i].found >= results_per_query
                  \/ i = 1 /\ requested[i].found = 0
    IN /\ n <= GoogleMaxPages(results_per_query)
       /\ n > 0 => requested[1].start = 0
       /\ \A i \in 1..n : Stops(i) => i = n
       /\ \A i \in 1..(n - 1) :
             IF requested[i].response \in {"raised", "error"}
                THEN requested[i + 1].start = requested[i].start
                ELSE requested[i + 1].start = requested[i].start + PageSize
       /\ (n > 0 /\ Stops(n)) => dpc # "google"

====
